---- MODULE Spec2Model ----
(***************************************************************************)
(* A model of the repository layer of bupstash (src/src/repository.rs):    *)
(* Repo::init, Repo::open / drop with the gc.lock file lock, add_item,     *)
(* walk_all_items, the chunk store behind storage_engine(), and the        *)
(* mark-and-sweep of Repo::gc.                                             *)
(*                                                                         *)
(* The hash-tree reader (htree::TreeReader) and the storage engine         *)
(* (chunk_storage::Engine) are called by repository.rs but are not part of *)
(* the sources at hand; they are modelled from their description in        *)
(* spec.md (sections 4.2 and 4.3).                                         *)
(***************************************************************************)
EXTENDS Integers, Sequences, FiniteSets, TLC

\* ------------------------------------------------------------------ bounds

\* Largest number of rows the Items table holds in the model.
MaxItems == 2

\* Largest tree_height an ItemMetadata carries in the model.
MaxHeight == 1

\* Largest number of add_chunk calls on one address that are recorded.
MaxPuts == 2

\* Largest number of update calls on one Hash value.
MaxUpdates == 2

\* if items.len() > 100: the batch length walk_all_items hands over above.
WalkBatch == 100

\* The content addresses of the model.
Addrs == {"A", "B"}

\* The values new_random_token() can return.
Tokens == {"t1", "t2"}

\* The repository handles (one per opener, in any process).
Handles == {"h1", "h2", "h3"}

\* The openers that write chunks and items and collect garbage.
Users == {"h1", "h2"}

\* The processes calling Repo::init on the same path.
InitProcs == {"p1", "p2"}

\* ---------------------------------------------------------- chunk payloads

\* A cell of the chunk store: no chunk, a chunk whose bytes do not parse as a
\* list of addresses, or a chunk that is a list of addresses (a tree node;
\* also any data chunk whose bytes happen to be such a list).
NoChunk == [st |-> "absent", kids |-> <<>>]

RawChunk == [st |-> "raw", kids |-> <<>>]

NodeChunk(kids) == [st |-> "node", kids |-> kids]

\* The address lists chunks hold in the model: no, one and two children.
AddrLists == {<<>>, <<"A">>, <<"B">>, <<"A", "B">>}

Payloads == {RawChunk} \cup {NodeChunk(k) : k \in AddrLists}

EmptyStore == [a \in Addrs |-> NoChunk]

\* ------------------------------------------------------------- directories

NoMeta == [k \in {} |-> ""]

\* A directory of the file system that is, or is to become, a repository:
\* whether it exists, its data/ directory and the chunks in it, its gc.lock
\* file, and its archivist.db ("absent", "empty": created with no committed
\* table, "committed": the tables RepositoryMeta and Items exist).
AbsentDir ==
    [exists |-> FALSE, data |-> FALSE, chunks |-> EmptyStore, lock |-> FALSE,
     db |-> "absent", meta |-> NoMeta, items |-> <<>>]

EmptyDir == [AbsentDir EXCEPT !.exists = TRUE]

\* The rows init inserts into RepositoryMeta.
InitialMeta(idTok, gcTok) ==
    ("schema-version" :> "0") @@ ("id" :> idTok) @@ ("gc-generation" :> gcTok)
        @@ ("storage-engine" :> "Local")

\* The directory a successful init leaves at the target path.
FreshRepo(idTok, gcTok) ==
    [exists |-> TRUE, data |-> TRUE, chunks |-> EmptyStore, lock |-> TRUE,
     db |-> "committed", meta |-> InitialMeta(idTok, gcTok), items |-> <<>>]

\* ---------------------------------------------------------------- hashing

\* The byte values of the model.
Bytes == {0, 1}

\* The contexts ([u8; 8]) and the keys (None: "nokey", or Some key) of the
\* model.
Contexts == {"ctx1", "ctx2"}

Keys == {"nokey", "key1"}

\* The slices handed to update.
Pieces == {<<>>, <<0>>, <<1>>, <<0, 1>>}

\* The content of a byte buffer: bytes the caller put there, or the digest
\* libhydrogen computes for a context, a key and a message, at the length of
\* the buffer. Digests of different inputs are different contents.
BytesBuf(b) == [kind |-> "bytes", bytes |-> b, ctx |-> "", key |-> "", msg |-> <<>>]

DigestBuf(ctx, key, msg) ==
    [kind |-> "digest", bytes |-> <<>>, ctx |-> ctx, key |-> key, msg |-> msg]

\* The buffers callers pass as `out` or `output`; their lengths are in the
\* range finish asserts.
OutBufs == {BytesBuf(<<0, 0>>), BytesBuf(<<1, 1>>)}

\* A hydro_hash_state: the context and the key it was initialised with and
\* the bytes it has absorbed.
HashState(ctx, key, absorbed) == [ctx |-> ctx, key |-> key, absorbed |-> absorbed]

\* No Hash value exists.
NoHasher ==
    [pc |-> "none", st |-> HashState("", "", <<>>), n |-> 0, fed |-> <<>>,
     out0 |-> BytesBuf(<<>>), out |-> BytesBuf(<<>>)]

VARIABLES
    target,      \* the directory at repo_path
    tmp,         \* the directory at <repo_path>.archivist-repo-init-tmp
    initpc,      \* initpc[p]: where process p is in Repo::init
    initres,     \* initres[p]: what p's last init call returned
    inittok,     \* inittok[p]: the tokens p's init call generated
    retry,       \* retry[p]: p's call started on the residue of an interrupted init
    hstate,      \* hstate[h]: "closed" or "open" (a Repo value exists)
    mode,        \* mode[h]: the open_mode of the handle, or of the open call
    flock,       \* flock[h]: the lock on gc.lock the opener's FileLock holds
    openpc,      \* openpc[h]: where h's call of Repo::open is
    openres,     \* openres[h]: what h's last call of Repo::open returned
    eng,         \* eng[h]: the caller keeps an engine got from h.storage_engine()
    gcpc,        \* gcpc[h]: where h's gc() call is
    gcres,       \* gcres[h]: what h's last gc() call returned
    reachable,   \* reachable[h]: the set gc() has marked
    pushed,      \* pushed[h][a]: push_addr calls of the run on address a
    row,         \* row[h]: rows of Items gc() has fetched
    tr,          \* tr[h]: the TreeReader's pending (height, address) pairs
    txstate,     \* txstate[h]: gc()'s catalog transaction: none, open, committed
    txmeta,      \* txmeta[h]: RepositoryMeta as the open transaction sees it
    gctok,       \* gctok[h]: the token gc() generated
    listing,     \* listing[h]: addresses the engine's sweep has still to visit
    snap,        \* snap[h]: the chunk store when h's gc() call began
    ckpt,        \* the last gc() run that was interrupted during its sweep
    walked,      \* walked[h]: the batches h's walk_all_items call gave its callback
    walkres,     \* walkres[h]: what h's last walk_all_items call returned
    put,         \* put[a]: the payloads of the add_chunk calls on the address a
    hasher       \* a hydrogen::Hash value of a caller, with its inputs and its out

initVars == <<target, tmp, initpc, initres, inittok, retry>>

lockVars == <<hstate, mode, flock, openpc, openres>>

gcVars == <<gcpc, gcres, reachable, pushed, row, tr, txstate, txmeta, gctok, listing,
            snap>>

callerVars == <<walked, walkres, put, hasher>>

repoVars == <<hstate, mode, flock, openpc, openres, eng, gcpc, gcres, reachable,
              pushed, row, tr, txstate, txmeta, gctok, listing, snap, ckpt, walked,
              walkres, put, hasher>>

vars == <<target, tmp, initpc, initres, inittok, retry, hstate, mode, flock, openpc,
          openres, eng, gcpc, gcres, reachable, pushed, row, tr, txstate, txmeta,
          gctok, listing, snap, ckpt, walked, walkres, put, hasher>>

\* No handle, no engine, no gc() call: the repository layer at rest.
RepoIdle ==
    /\ hstate = [h \in Handles |-> "closed"]
    /\ mode = [h \in Handles |-> "Shared"]
    /\ flock = [h \in Handles |-> "none"]
    /\ openpc = [h \in Handles |-> "idle"]
    /\ openres = [h \in Handles |-> "none"]
    /\ eng = [h \in Handles |-> FALSE]
    /\ gcpc = [h \in Handles |-> "idle"]
    /\ gcres = [h \in Handles |-> "none"]
    /\ reachable = [h \in Handles |-> {}]
    /\ pushed = [h \in Handles |-> [a \in Addrs |-> 0]]
    /\ row = [h \in Handles |-> 0]
    /\ tr = [h \in Handles |-> <<>>]
    /\ txstate = [h \in Handles |-> "none"]
    /\ txmeta = [h \in Handles |-> NoMeta]
    /\ gctok = [h \in Handles |-> ""]
    /\ listing = [h \in Handles |-> {}]
    /\ snap = [h \in Handles |-> EmptyStore]
    /\ ckpt = [set |-> FALSE, rerun |-> FALSE, store0 |-> EmptyStore, reach |-> {}]
    /\ walked = [h \in Handles |-> <<>>]
    /\ walkres = [h \in Handles |-> "none"]
    /\ put = [a \in Addrs |-> <<>>]
    /\ hasher = NoHasher

\* ============================================================= Repo::init

\* An init that renames the staging directory into place once the database
\* file is there, before its transaction.
InitAfterRenameEarly(pc) ==
    CASE pc = "mktmp" -> "mkdata"
      [] pc = "mkdata" -> "mklock"
      [] pc = "mklock" -> "opendb"
      [] pc = "opendb" -> "rename"
      [] pc = "tx" -> "sync"
      [] pc = "sync" -> "idle"
      [] pc = "rename" -> "tx"

\* The steps of init after its two existence checks, in program order, and the
\* step that follows each.
InitAfter(pc) ==
    CASE pc = "mktmp" -> "mkdata"
      [] pc = "mkdata" -> "mklock"
      [] pc = "mklock" -> "opendb"
      [] pc = "opendb" -> "tx"
      [] pc = "tx" -> "sync"
      [] pc = "sync" -> "rename"
      [] pc = "rename" -> "idle"

\* The steps during which the process works inside the staging directory it
\* created.
InitBuilding == {"mkdata", "mklock", "opendb", "tx", "sync", "rename"}

InitReturn(p, res) ==
    /\ initpc' = [initpc EXCEPT ![p] = "idle"]
    /\ initres' = [initres EXCEPT ![p] = res]

\* A call of init(repo_path, Local). The staging directory of an earlier,
\* interrupted call is still there when tmp exists and no process is in init.
InitCall(p) ==
    /\ initpc[p] = "idle"
    /\ initpc' = [initpc EXCEPT ![p] = "chktarget"]
    /\ initres' = [initres EXCEPT ![p] = "none"]
    /\ retry' = [retry EXCEPT ![p] =
                    /\ ~target.exists
                    /\ tmp.exists
                    /\ \A q \in InitProcs : initpc[q] = "idle"]
    /\ UNCHANGED <<target, tmp, inittok>>
    /\ UNCHANGED repoVars

\* if repo_path.exists() { return Err(AlreadyExists) }
InitCheckTarget(p) ==
    /\ initpc[p] = "chktarget"
    /\ IF target.exists
         THEN InitReturn(p, "AlreadyExists")
         ELSE initpc' = [initpc EXCEPT ![p] = "chktmp"] /\ UNCHANGED initres
    /\ UNCHANGED <<target, tmp, inittok, retry>>
    /\ UNCHANGED repoVars

\* An init that clears a staging directory it finds and goes on.
InitCheckTmpClobber(p) ==
    /\ initpc[p] = "chktmp"
    /\ tmp' = AbsentDir
    /\ initpc' = [initpc EXCEPT ![p] = "mktmp"]
    /\ UNCHANGED <<target, initres, inittok, retry>>
    /\ UNCHANGED repoVars

\* if path_buf.exists() { return Err(AlreadyExists) }
InitCheckTmp(p) ==
    /\ initpc[p] = "chktmp"
    /\ IF tmp.exists
         THEN InitReturn(p, "AlreadyExists")
         ELSE initpc' = [initpc EXCEPT ![p] = "mktmp"] /\ UNCHANGED initres
    /\ UNCHANGED <<target, tmp, inittok, retry>>
    /\ UNCHANGED repoVars

\* An init that creates the staging directory unless it is there, and goes on
\* in either case (a recursive DirBuilder).
InitMkTmpRecursive(p) ==
    /\ initpc[p] = "mktmp"
    /\ tmp' = IF tmp.exists THEN tmp ELSE EmptyDir
    /\ initpc' = [initpc EXCEPT ![p] = "mkdata"]
    /\ UNCHANGED <<target, initres, inittok, retry>>
    /\ UNCHANGED repoVars

\* fs::DirBuilder::new().create(tmp)?  -- fails when the directory exists
InitMkTmp(p) ==
    /\ initpc[p] = "mktmp"
    /\ IF tmp.exists
         THEN InitReturn(p, "IoError") /\ UNCHANGED tmp
         ELSE /\ tmp' = EmptyDir
              /\ initpc' = [initpc EXCEPT ![p] = InitAfter("mktmp")]
              /\ UNCHANGED initres
    /\ UNCHANGED <<target, inittok, retry>>
    /\ UNCHANGED repoVars

\* fs::DirBuilder::new().create(tmp/data)?
InitMkData(p) ==
    /\ initpc[p] = "mkdata"
    /\ tmp' = [tmp EXCEPT !.data = TRUE]
    /\ initpc' = [initpc EXCEPT ![p] = InitAfter("mkdata")]
    /\ UNCHANGED <<target, initres, inittok, retry>>
    /\ UNCHANGED repoVars

\* fsutil::create_empty_file(tmp/gc.lock)?
InitMkLock(p) ==
    /\ initpc[p] = "mklock"
    /\ tmp' = [tmp EXCEPT !.lock = TRUE]
    /\ initpc' = [initpc EXCEPT ![p] = InitAfter("mklock")]
    /\ UNCHANGED <<target, initres, inittok, retry>>
    /\ UNCHANGED repoVars

\* Repo::open_db(tmp)?; pragma journal_mode=WAL; the two random tokens
InitOpenDb(p) ==
    /\ initpc[p] = "opendb"
    /\ tmp' = [tmp EXCEPT !.db = "empty"]
    /\ \E idTok \in Tokens, gcTok \in Tokens :
          inittok' = [inittok EXCEPT ![p] = <<idTok, gcTok>>]
    /\ initpc' = [initpc EXCEPT ![p] = InitAfter("opendb")]
    /\ UNCHANGED <<target, initres, retry>>
    /\ UNCHANGED repoVars

\* The transaction: create table RepositoryMeta, the four inserts, create table
\* Items, tx.commit()?. Nothing of it is in the database before the commit.
InitTx(p) ==
    /\ initpc[p] = "tx"
    /\ tmp' = [tmp EXCEPT !.db = "committed",
                          !.meta = InitialMeta(inittok[p][1], inittok[p][2]),
                          !.items = <<>>]
    /\ initpc' = [initpc EXCEPT ![p] = InitAfter("tx")]
    /\ UNCHANGED <<target, initres, inittok, retry>>
    /\ UNCHANGED repoVars

\* drop(conn); fsutil::sync_dir(tmp)?
InitSync(p) ==
    /\ initpc[p] = "sync"
    /\ initpc' = [initpc EXCEPT ![p] = InitAfter("sync")]
    /\ UNCHANGED <<target, tmp, initres, inittok, retry>>
    /\ UNCHANGED repoVars

\* std::fs::rename(tmp, repo_path)?  -- fails when repo_path is a directory
\* that is not empty, which a repository always is.
InitRename(p) ==
    /\ initpc[p] = "rename"
    /\ IF target.exists
         THEN InitReturn(p, "IoError") /\ UNCHANGED <<target, tmp>>
         ELSE /\ target' = tmp
              /\ tmp' = AbsentDir
              /\ InitReturn(p, "Ok")
    /\ UNCHANGED <<inittok, retry>>
    /\ UNCHANGED repoVars

\* init is interrupted while it works in the staging directory: a step fails
\* and `?` returns the error, or the process dies. Nothing is cleaned up.
InitInterrupt(p) ==
    /\ initpc[p] \in InitBuilding
    /\ InitReturn(p, "IoError")
    /\ UNCHANGED <<target, tmp, inittok, retry>>
    /\ UNCHANGED repoVars

\* The file system before any init, and no process in init.
InitFs ==
    /\ target = AbsentDir
    /\ tmp = AbsentDir
    /\ initpc = [p \in InitProcs |-> "idle"]
    /\ initres = [p \in InitProcs |-> "none"]
    /\ inittok = [p \in InitProcs |-> <<"", "">>]
    /\ retry = [p \in InitProcs |-> FALSE]

InitInit == InitFs /\ RepoIdle

InitNext ==
    \/ \E p \in InitProcs : InitCall(p)
    \/ \E p \in InitProcs : InitCheckTarget(p)
    \/ \E p \in InitProcs : InitCheckTmp(p)
    \/ \E p \in InitProcs : InitMkTmp(p)
    \/ \E p \in InitProcs : InitMkData(p)
    \/ \E p \in InitProcs : InitMkLock(p)
    \/ \E p \in InitProcs : InitOpenDb(p)
    \/ \E p \in InitProcs : InitTx(p)
    \/ \E p \in InitProcs : InitSync(p)
    \/ \E p \in InitProcs : InitRename(p)
    \/ \E p \in InitProcs : InitInterrupt(p)

\* Processes calling Repo::init on one path, with interruptions.
SpecInit == InitInit /\ [][InitNext]_vars


\* ================================================ the repository in service

Store == target.chunks

Meta == target.meta

\* --------------------------------------------------------- rows of Items

\* bincode::serialize(&metadata) bound to the insert: the Metadata column of
\* the row holds a BLOB whose bytes are the bincode encoding of the metadata.
BincodeSerialize(m) ==
    [class |-> "Blob", format |-> "bincode", address |-> m.address,
     tree_height |-> m.tree_height]

\* row.get(..) into a Vec<u8>: the stored value has to be a BLOB.
GetBytesOk(r) == r.class = "Blob"

\* row.get(..) into a String: the stored value has to be TEXT.
GetStringOk(r) == r.class = "Text"

\* bincode::deserialize::<ItemMetadata>(bytes) succeeds on bincode's encoding.
BincodeDeserializeOk(r) == r.format = "bincode"

\* serde_json::from_str::<ItemMetadata>(text) succeeds on JSON text.
SerdeJsonFromStrOk(r) == r.format = "json"

\* The ItemMetadata the bytes of a row encode.
Decoded(r) == [address |-> r.address, tree_height |-> r.tree_height]

\* A row whose bytes are no encoding of an ItemMetadata.
JunkRow == [class |-> "Blob", format |-> "junk", address |-> "A", tree_height |-> 0]

\* The catalog: the metadata of the rows of Items, by Id (AUTOINCREMENT from
\* 1, no row is ever deleted).
Items == [i \in 1..Len(target.items) |-> Decoded(target.items[i])]

Stored(st) == {a \in Addrs : st[a].st # "absent"}

\* Tree heights and item metadata of the model (the header and the tags of an
\* ItemMetadata play no part in what follows and are left out).
Heights == 0..MaxHeight

ItemMetadatas == [address : Addrs, tree_height : Heights]

\* ------------------------------------------------------------- hash trees

\* The addresses of the tree (root a, height h) over the chunk store st: the
\* root, and for a node above height 0 the trees of its children one level
\* lower. A chunk that is absent or is no address list has no children.
RECURSIVE TreeAddrs(_, _, _)
TreeAddrs(st, a, h) ==
    {a} \cup
      IF h = 0 \/ st[a].st # "node"
        THEN {}
        ELSE UNION {TreeAddrs(st, st[a].kids[i], h - 1) : i \in 1..Len(st[a].kids)}

\* The addresses referenced by the trees of all items of a catalog.
CatalogAddrs(st, its) ==
    UNION {TreeAddrs(st, its[i].address, its[i].tree_height) : i \in 1..Len(its)}

\* htree::TreeReader::new(engine, height, root): the work stack holds the root.
TreeReaderNew(height, addr) == << <<height, addr>> >>

\* TreeReader::push_addr(height, addr) can read and parse the chunk at addr.
PushAddrOk(st, addr) == st[addr].st = "node"

\* TreeReader::push_addr(height, addr): the children of the chunk at addr are
\* put on top of the work stack, each at `height`.
PushAddr(stack, st, height, addr) ==
    [i \in 1..Len(st[addr].kids) |-> <<height, st[addr].kids[i]>>] \o stack

\* ------------------------------------------------------------- open / drop

\* Repo::check_sane
CheckSane(d) ==
    IF ~d.exists THEN "RepoDoesNotExist"
    ELSE IF ~d.data \/ d.db = "absent" THEN "NotInitializedProperly"
    ELSE "Ok"

\* The openers whose FileLock holds gc.lock in mode m.
Holders(m) == {h \in Handles : flock[h] = m}

\* A lock on gc.lock that admits any number of shared holders.
LockGrantedAsShared(m) == Holders("Exclusive") = {}

\* FileLock::get_exclusive / FileLock::get_shared return: flock on gc.lock
\* grants an exclusive lock when nobody holds the lock, and a shared lock when
\* nobody holds it exclusively. Until then the call blocks.
LockGranted(m) ==
    IF m = "Exclusive"
      THEN Holders("Exclusive") = {} /\ Holders("Shared") = {}
      ELSE Holders("Exclusive") = {}

\* A version check that lets every schema version through.
SchemaAny(v) == TRUE

\* if v != 0 { return Err(UnsupportedSchemaVersion) }
SchemaSupported(v) == v = "0"

\* Repo::open(repo_path, m) returning a handle: the layout is sane, the lock
\* is granted, the stored schema version is 0.
Open(h, m) ==
    /\ hstate[h] = "closed"
    /\ CheckSane(target) = "Ok"
    /\ target.lock
    /\ LockGranted(m)
    /\ target.db = "committed"
    /\ SchemaSupported(Meta["schema-version"])
    /\ openpc[h] = "idle"
    /\ hstate' = [hstate EXCEPT ![h] = "open"]
    /\ mode' = [mode EXCEPT ![h] = m]
    /\ flock' = [flock EXCEPT ![h] = m]
    /\ openres' = [openres EXCEPT ![h] = "Ok"]
    /\ UNCHANGED <<initVars, openpc, callerVars, eng, gcVars, ckpt>>

\* A FileLock that stays locked when it is dropped.
FileLockLeak(l) == l

\* impl Drop for FileLock: self.f.unlock()
FileLockDrop(l) == "none"

\* Repo::open(repo_path, m) is called: check_sane. An error is returned to
\* the caller; otherwise the call goes on to take the lock.
OpenBegin(h, m) ==
    /\ hstate[h] = "closed"
    /\ openpc[h] = "idle"
    /\ IF CheckSane(target) = "Ok"
         THEN /\ openpc' = [openpc EXCEPT ![h] = "lock"]
              /\ mode' = [mode EXCEPT ![h] = m]
              /\ openres' = [openres EXCEPT ![h] = "none"]
         ELSE /\ openres' = [openres EXCEPT ![h] = CheckSane(target)]
              /\ UNCHANGED <<openpc, mode>>
    /\ UNCHANGED <<initVars, hstate, flock, callerVars, eng, gcVars, ckpt>>

\* FileLock::get_shared / get_exclusive(gc.lock): fs::File::open(p)? fails
\* when there is no gc.lock; f.lock_shared() / f.lock_exclusive() blocks until
\* the lock is granted, and the FileLock then holds it.
OpenLock(h) ==
    /\ openpc[h] = "lock"
    /\ IF ~target.lock
         THEN /\ openpc' = [openpc EXCEPT ![h] = "idle"]
              /\ openres' = [openres EXCEPT ![h] = "IoError"]
              /\ mode' = [mode EXCEPT ![h] = "Shared"]
              /\ UNCHANGED flock
         ELSE /\ LockGranted(mode[h])
              /\ flock' = [flock EXCEPT ![h] = mode[h]]
              /\ openpc' = [openpc EXCEPT ![h] = "db"]
              /\ UNCHANGED <<openres, mode>>
    /\ UNCHANGED <<initVars, hstate, callerVars, eng, gcVars, ckpt>>

\* The query of the schema version can be answered: the database has the
\* table RepositoryMeta with a row 'schema-version'.
SchemaQueryOk == target.db = "committed" /\ "schema-version" \in DOMAIN Meta

\* What open returns once it holds the lock: open_db and the query of
\* 'schema-version', then the version check.
OpenResult ==
    IF ~SchemaQueryOk THEN "SqliteError"
    ELSE IF ~SchemaSupported(Meta["schema-version"]) THEN "UnsupportedSchemaVersion"
    ELSE "Ok"

\* The rest of open. On Ok the Repo value owns the FileLock; on an error the
\* FileLock goes out of scope with the return and is dropped.
OpenFinish(h) ==
    /\ openpc[h] = "db"
    /\ openpc' = [openpc EXCEPT ![h] = "idle"]
    /\ openres' = [openres EXCEPT ![h] = OpenResult]
    /\ IF OpenResult = "Ok"
         THEN /\ hstate' = [hstate EXCEPT ![h] = "open"]
              /\ UNCHANGED <<flock, mode>>
         ELSE /\ flock' = [flock EXCEPT ![h] = FileLockDrop(@)]
              /\ mode' = [mode EXCEPT ![h] = "Shared"]
              /\ UNCHANGED hstate
    /\ UNCHANGED <<initVars, callerVars, eng, gcVars, ckpt>>

\* What a handle's gc() call holds, back at rest.
GcReset(h) ==
    /\ gcpc' = [gcpc EXCEPT ![h] = "idle"]
    /\ reachable' = [reachable EXCEPT ![h] = {}]
    /\ pushed' = [pushed EXCEPT ![h] = [a \in Addrs |-> 0]]
    /\ row' = [row EXCEPT ![h] = 0]
    /\ tr' = [tr EXCEPT ![h] = <<>>]
    /\ txstate' = [txstate EXCEPT ![h] = "none"]
    /\ txmeta' = [txmeta EXCEPT ![h] = NoMeta]
    /\ gctok' = [gctok EXCEPT ![h] = ""]
    /\ listing' = [listing EXCEPT ![h] = {}]
    /\ snap' = [snap EXCEPT ![h] = EmptyStore]

\* The handle goes out of scope: FileLock::drop unlocks gc.lock.
Drop(h) ==
    /\ hstate[h] = "open"
    /\ gcpc[h] = "idle"
    /\ hstate' = [hstate EXCEPT ![h] = "closed"]
    /\ mode' = [mode EXCEPT ![h] = "Shared"]
    /\ flock' = [flock EXCEPT ![h] = FileLockDrop(@)]
    /\ openres' = [openres EXCEPT ![h] = "none"]
    /\ gcres' = [gcres EXCEPT ![h] = "none"]
    /\ walkres' = [walkres EXCEPT ![h] = "none"]
    /\ walked' = [walked EXCEPT ![h] = <<>>]
    /\ UNCHANGED <<initVars, openpc, eng, gcpc, reachable, pushed, row, tr, txstate,
                   txmeta, gctok, listing, snap, ckpt, put, hasher>>

\* ------------------------------------------------------ chunks and items

\* The callers of the model write chunks and items through handles opened
\* Shared, and open Exclusive to collect garbage.
Writer(h) == hstate[h] = "open" /\ mode[h] = "Shared"

\* An engine that rewrites a chunk that is already stored.
ChunkOverwritten(old, p) == p

\* What is stored at an address after add_chunk of the payload p: a chunk
\* already stored is left as it is.
ChunkAfterAdd(old, p) == IF old.st = "absent" THEN p ELSE old

\* engine.add_chunk(a, p); engine.sync() on the engine of an open handle.
PutChunk(h, a, p) ==
    /\ Writer(h)
    /\ gcpc[h] = "idle"
    /\ Meta["storage-engine"] = "Local"
    /\ target' = [target EXCEPT !.chunks[a] = ChunkAfterAdd(@, p)]
    /\ ckpt' = [ckpt EXCEPT !.set = FALSE, !.rerun = FALSE,
                            !.store0 = EmptyStore, !.reach = {}]
    /\ UNCHANGED <<tmp, initpc, initres, inittok, retry, lockVars, walked, walkres,
                   hasher, eng, gcVars>>

AddChunk(h, a, p) == PutChunk(h, a, p) /\ UNCHANGED put

\* The same, with the payloads of the calls on each address remembered in
\* the order of the calls.
AddChunkNoted(h, a, p) ==
    /\ Len(put[a]) < MaxPuts
    /\ PutChunk(h, a, p)
    /\ put' = [put EXCEPT ![a] = Append(@, p)]

\* engine.get_chunk(a) on a stored address.
GetChunk(a) == Store[a]

\* Repo::add_item(metadata): one committed insert into Items. The insert
\* waits while another connection holds the database's write lock.
AddItem(h, m) ==
    /\ Writer(h)
    /\ gcpc[h] = "idle"
    /\ \A g \in Handles : txstate[g] # "open"
    /\ Len(Items) < MaxItems
    /\ target' = [target EXCEPT !.items = Append(@, BincodeSerialize(m))]
    /\ ckpt' = [ckpt EXCEPT !.set = FALSE, !.rerun = FALSE,
                            !.store0 = EmptyStore, !.reach = {}]
    /\ UNCHANGED <<tmp, initpc, initres, inittok, retry, lockVars, callerVars, eng, gcVars>>

\* --------------------------------------------------------- walk_all_items

\* The loop of walk_all_items from row i on, with `items` the vector built so
\* far and `calls` the batches the callback f has been given: the result of
\* the call and all the batches. A row is read with row.get into a String and
\* parsed with serde_json::from_str; either failing ends the call with the
\* error. The callback is taken to return Ok.
RECURSIVE WalkRows(_, _, _, _)
WalkRows(rows, i, items, calls) ==
    IF i > Len(rows)
      THEN [res |-> "Ok",
            calls |-> IF items # <<>> THEN Append(calls, items) ELSE calls]
      ELSE IF ~(GetStringOk(rows[i]) /\ SerdeJsonFromStrOk(rows[i]))
        THEN [res |-> "Err", calls |-> calls]
        ELSE LET its == Append(items, [id |-> i, metadata |-> Decoded(rows[i])])
             IN  IF Len(its) > WalkBatch
                   THEN WalkRows(rows, i + 1, <<>>, Append(calls, its))
                   ELSE WalkRows(rows, i + 1, its, calls)

\* Repo::walk_all_items(f) on a handle: its transaction reads one snapshot of
\* the table Items.
WalkAllItems(h) ==
    /\ hstate[h] = "open"
    /\ gcpc[h] = "idle"
    /\ LET w == WalkRows(target.items, 1, <<>>, <<>>) IN
          /\ walkres' = [walkres EXCEPT ![h] = w.res]
          /\ walked' = [walked EXCEPT ![h] = w.calls]
    /\ UNCHANGED <<initVars, lockVars, eng, gcVars, ckpt, put, hasher>>


\* ================================================================ Repo::gc

\* An SQL "update RepositoryMeta set value = v where key = k": every row whose
\* key is k gets the value v, and there is no row to change when no key is k.
MetaUpdate(m, k, v) == [x \in DOMAIN m |-> IF x = k THEN v ELSE m[x]]

\* A check of the open mode that lets every handle through.
GcModeAny(h) == TRUE

\* match self.open_mode { Exclusive => (), _ => bail!(..) }
GcModeOk(h) == mode[h] = "Exclusive"

\* A gc() that starts the engine's sweep right after the marking loop.
GcAfterMarkSweep == "engine"

\* What follows the marking loop in gc(): tx.commit(), and only then the call
\* of the engine's gc.
GcAfterMark == "commit"

\* gc() on a handle that is not Exclusive: the call returns the error.
GcRefuse(h) ==
    /\ hstate[h] = "open"
    /\ gcpc[h] = "idle"
    /\ ~GcModeOk(h)
    /\ gcres' = [gcres EXCEPT ![h] = "PolicyError"]
    /\ UNCHANGED <<initVars, lockVars, callerVars, eng, gcpc, reachable, pushed, row, tr, txstate,
                   txmeta, gctok, listing, snap, ckpt>>

\* gc() up to its row query: the empty reachable set, a connection, the
\* storage engine, the transaction, and in it the update of the key
\* 'gc_generation' to a new random token. A random token of 32 bytes is taken
\* to differ from the stored one.
GcBegin(h) ==
    /\ hstate[h] = "open"
    /\ gcpc[h] = "idle"
    /\ GcModeOk(h)
    /\ Meta["storage-engine"] = "Local"
    /\ \A g \in Handles : txstate[g] # "open"
    /\ \E tok \in Tokens \ {Meta["gc-generation"]} :
          /\ gctok' = [gctok EXCEPT ![h] = tok]
          /\ txmeta' = [txmeta EXCEPT ![h] = MetaUpdate(Meta, "gc_generation", tok)]
    /\ txstate' = [txstate EXCEPT ![h] = "open"]
    /\ reachable' = [reachable EXCEPT ![h] = {}]
    /\ pushed' = [pushed EXCEPT ![h] = [a \in Addrs |-> 0]]
    /\ row' = [row EXCEPT ![h] = 0]
    /\ tr' = [tr EXCEPT ![h] = <<>>]
    /\ listing' = [listing EXCEPT ![h] = {}]
    /\ snap' = [snap EXCEPT ![h] = Store]
    /\ gcres' = [gcres EXCEPT ![h] = "none"]
    /\ gcpc' = [gcpc EXCEPT ![h] = "rows"]
    /\ UNCHANGED <<initVars, lockVars, callerVars, eng, ckpt>>

\* let metadata: Vec<u8> = row.get(0)?; bincode::deserialize(&metadata)?
GcRowOk(r) == GetBytesOk(r) /\ BincodeDeserializeOk(r)

\* A row loop that starts a TreeReader for every item.
GcNextRowAll(h) ==
    /\ gcpc[h] = "rows"
    /\ row[h] < Len(Items) => GcRowOk(target.items[row[h] + 1])
    /\ IF row[h] < Len(Items)
         THEN LET m == Items[row[h] + 1] IN
              /\ row' = [row EXCEPT ![h] = @ + 1]
              /\ tr' = [tr EXCEPT ![h] = TreeReaderNew(m.tree_height, m.address)]
              /\ gcpc' = [gcpc EXCEPT ![h] = "walk"]
         ELSE /\ gcpc' = [gcpc EXCEPT ![h] = GcAfterMark]
              /\ UNCHANGED <<row, tr>>
    /\ UNCHANGED <<initVars, lockVars, callerVars, eng, gcres, reachable, pushed,
                   txstate, txmeta, gctok, listing, snap, ckpt>>

\* while let Some(row) = rows.next()?: the next item; a TreeReader over its
\* tree unless its root is in the reachable set. After the last row the loop
\* ends.
GcNextRow(h) ==
    /\ gcpc[h] = "rows"
    /\ row[h] < Len(Items) => GcRowOk(target.items[row[h] + 1])
    /\ IF row[h] < Len(Items)
         THEN LET m == Items[row[h] + 1] IN
              /\ row' = [row EXCEPT ![h] = @ + 1]
              /\ IF m.address \notin reachable[h]
                   THEN /\ tr' = [tr EXCEPT ![h] = TreeReaderNew(m.tree_height, m.address)]
                        /\ gcpc' = [gcpc EXCEPT ![h] = "walk"]
                   ELSE UNCHANGED <<tr, gcpc>>
         ELSE /\ gcpc' = [gcpc EXCEPT ![h] = GcAfterMark]
              /\ UNCHANGED <<row, tr>>
    /\ UNCHANGED <<initVars, lockVars, callerVars, eng, gcres, reachable, pushed, txstate, txmeta,
                   gctok, listing, snap, ckpt>>

\* One turn of `while let Some((height, addr)) = tr.next_addr()?`: an address
\* not yet in the reachable set is inserted and, above height 0, expanded with
\* push_addr(height - 1, addr). When the reader is exhausted the row is done.
GcWalk(h) ==
    /\ gcpc[h] = "walk"
    /\ IF tr[h] = <<>>
         THEN /\ gcpc' = [gcpc EXCEPT ![h] = "rows"]
              /\ UNCHANGED <<tr, reachable, pushed>>
         ELSE LET height == Head(tr[h])[1]
                  addr == Head(tr[h])[2]
                  rest == Tail(tr[h])
              IN  IF addr \in reachable[h]
                    THEN /\ tr' = [tr EXCEPT ![h] = rest]
                         /\ UNCHANGED <<reachable, pushed, gcpc>>
                    ELSE /\ height # 0 => PushAddrOk(Store, addr)
                         /\ reachable' = [reachable EXCEPT ![h] = @ \cup {addr}]
                         /\ tr' = [tr EXCEPT ![h] =
                                     IF height # 0
                                       THEN PushAddr(rest, Store, height - 1, addr)
                                       ELSE rest]
                         /\ pushed' = [pushed EXCEPT ![h][addr] =
                                         IF height # 0 THEN @ + 1 ELSE @]
                         /\ UNCHANGED gcpc
    /\ UNCHANGED <<initVars, lockVars, callerVars, eng, gcres, row, txstate, txmeta, gctok,
                   listing, snap, ckpt>>

\* A marking loop that marks a node it cannot read and goes on.
GcSkipUnreadable(h) ==
    /\ gcpc[h] = "walk"
    /\ tr[h] # <<>>
    /\ LET height == Head(tr[h])[1]
           addr == Head(tr[h])[2]
       IN  /\ addr \notin reachable[h]
           /\ height # 0
           /\ ~PushAddrOk(Store, addr)
           /\ reachable' = [reachable EXCEPT ![h] = @ \cup {addr}]
    /\ tr' = [tr EXCEPT ![h] = Tail(@)]
    /\ UNCHANGED <<initVars, lockVars, callerVars, eng, gcpc, gcres, pushed, row,
                   txstate, txmeta, gctok, listing, snap, ckpt>>

\* tr.push_addr(height - 1, &addr)? fails: the chunk is not stored or is no
\* address list. gc() returns the error and the transaction is rolled back.
GcAbort(h) ==
    /\ gcpc[h] = "walk"
    /\ tr[h] # <<>>
    /\ LET height == Head(tr[h])[1]
           addr == Head(tr[h])[2]
       IN  /\ addr \notin reachable[h]
           /\ height # 0
           /\ ~PushAddrOk(Store, addr)
    /\ GcReset(h)
    /\ gcres' = [gcres EXCEPT ![h] = "Err"]
    /\ UNCHANGED <<initVars, lockVars, callerVars, eng, ckpt>>

\* The row cannot be read as bytes or decoded: gc() returns the error and the
\* transaction is rolled back.
GcDecodeFail(h) ==
    /\ gcpc[h] = "rows"
    /\ row[h] < Len(Items)
    /\ ~GcRowOk(target.items[row[h] + 1])
    /\ GcReset(h)
    /\ gcres' = [gcres EXCEPT ![h] = "Err"]
    /\ UNCHANGED <<initVars, lockVars, callerVars, eng, ckpt>>

\* tx.commit()?
GcCommit(h) ==
    /\ gcpc[h] = "commit"
    /\ target' = [target EXCEPT !.meta = txmeta[h]]
    /\ txstate' = [txstate EXCEPT ![h] = "committed"]
    /\ gcpc' = [gcpc EXCEPT ![h] = "engine"]
    /\ UNCHANGED <<tmp, initpc, initres, inittok, retry, lockVars, callerVars, eng, gcres,
                   reachable, pushed, row, tr, txmeta, gctok, listing, snap, ckpt>>

\* storage_engine.gc(&|addr| reachable.contains(&addr)) begins: the engine
\* lists the chunks it stores.
GcSweepList(h) ==
    /\ gcpc[h] = "engine"
    /\ listing' = [listing EXCEPT ![h] = Stored(Store)]
    /\ gcpc' = [gcpc EXCEPT ![h] = "sweep"]
    /\ UNCHANGED <<initVars, lockVars, callerVars, eng, gcres, reachable, pushed, row, tr, txstate,
                   txmeta, gctok, snap, ckpt>>

\* The engine visits one listed chunk, in any order, and deletes it when the
\* predicate rejects its address.
GcSweepOne(h) ==
    /\ gcpc[h] = "sweep"
    /\ \E a \in listing[h] :
          /\ listing' = [listing EXCEPT ![h] = @ \ {a}]
          /\ target' = [target EXCEPT !.chunks[a] =
                           IF a \in reachable[h] THEN @ ELSE NoChunk]
    /\ UNCHANGED <<tmp, initpc, initres, inittok, retry, lockVars, callerVars, eng, gcpc, gcres,
                   reachable, pushed, row, tr, txstate, txmeta, gctok, snap, ckpt>>

\* The engine's gc returns and gc() returns Ok(stats).
GcReturn(h) ==
    /\ gcpc[h] = "sweep"
    /\ listing[h] = {}
    /\ GcReset(h)
    /\ gcres' = [gcres EXCEPT ![h] = "Ok"]
    /\ ckpt' = IF ckpt.set THEN [ckpt EXCEPT !.rerun = TRUE] ELSE ckpt
    /\ UNCHANGED <<initVars, lockVars, callerVars, eng>>

\* The process dies inside gc(): the handle is gone, the operating system
\* releases the lock, an open transaction is rolled back.
Die(h) ==
    /\ hstate[h] = "open"
    /\ gcpc[h] # "idle"
    /\ hstate' = [hstate EXCEPT ![h] = "closed"]
    /\ mode' = [mode EXCEPT ![h] = "Shared"]
    /\ flock' = [flock EXCEPT ![h] = "none"]
    /\ openres' = [openres EXCEPT ![h] = "none"]
    /\ GcReset(h)
    /\ gcres' = [gcres EXCEPT ![h] = "none"]
    /\ UNCHANGED <<initVars, openpc, callerVars, eng>>

Crash(h) == Die(h) /\ UNCHANGED ckpt

\* The same, observed: a run that dies after its commit is remembered, with
\* the chunk store it started from and the reachable set it computed, until
\* the catalog or the store is written.
CrashNoted(h) ==
    /\ Die(h)
    /\ ckpt' = IF txstate[h] = "committed" /\ ~ckpt.set
                 THEN [set |-> TRUE, rerun |-> FALSE, store0 |-> snap[h],
                       reach |-> reachable[h]]
                 ELSE ckpt

\* ------------------------------------------------- engines kept by callers

\* h.storage_engine(): the caller keeps the boxed engine; it borrows nothing
\* from the handle.
StorageEngine(h) ==
    /\ hstate[h] = "open"
    /\ gcpc[h] = "idle"
    /\ Meta["storage-engine"] = "Local"
    /\ ~eng[h]
    /\ eng' = [eng EXCEPT ![h] = TRUE]
    /\ UNCHANGED <<initVars, lockVars, callerVars, gcVars, ckpt>>

\* engine.gc(&|addr| keep.contains(&addr)) on a kept engine: every stored
\* chunk whose address the predicate rejects is deleted.
EngineGc(h, keep) ==
    /\ eng[h]
    /\ target' = [target EXCEPT !.chunks =
                     [a \in Addrs |-> IF a \in keep THEN @[a] ELSE NoChunk]]
    /\ UNCHANGED <<tmp, initpc, initres, inittok, retry, lockVars, callerVars, eng, gcVars, ckpt>>

\* The caller drops the engine.
EngineDrop(h) ==
    /\ eng[h]
    /\ eng' = [eng EXCEPT ![h] = FALSE]
    /\ UNCHANGED <<initVars, lockVars, callerVars, gcVars, ckpt>>

\* ========================================================= hydrogen::Hash

\* hydro_hash_init(state, context, key): the state is set up whole from the
\* context and the key, whatever it held.
HydroHashInit(st, ctx, key) == HashState(ctx, key, <<>>)

\* hydro_hash_update(state, in, len): the bytes are absorbed.
HydroHashUpdate(st, in) == [st EXCEPT !.absorbed = @ \o in]

\* hydro_hash_final(state, out, len): the digest of what was absorbed.
HydroHashFinal(st) == DigestBuf(st.ctx, st.key, st.absorbed)

\* hydro_hash_hash(out, out_len, in, in_len, context, key): init, update,
\* final in one call.
HydroHashHash(in, ctx, key) ==
    HydroHashFinal(HydroHashUpdate(HydroHashInit(HashState("", "", <<>>), ctx, key), in))

\* hydrogen::hash(message, context, key, output): what output holds after it.
hash(message, ctx, key, output) == HydroHashHash(message, ctx, key)

\* Hash::init(context, key): the state starts out uninitialised (any
\* content) and hydro_hash_init sets it up.
HashInit(ctx, key) ==
    /\ hasher.pc \in {"none", "done"}
    /\ \E junk \in Pieces :
          hasher' = [NoHasher EXCEPT
                        !.pc = "live",
                        !.st = HydroHashInit(HashState("", "", junk), ctx, key)]
    /\ UNCHANGED <<initVars, lockVars, eng, gcVars, ckpt, walked, walkres, put>>

\* Hash::update(data): hydro_hash_update on the state. `fed` keeps the data
\* of all update calls and `n` their number.
HashUpdate(data) ==
    /\ hasher.pc = "live"
    /\ hasher.n < MaxUpdates
    /\ hasher' = [hasher EXCEPT !.st = HydroHashUpdate(@, data),
                                !.fed = @ \o data,
                                !.n = @ + 1]
    /\ UNCHANGED <<initVars, lockVars, eng, gcVars, ckpt, walked, walkres, put>>

\* What `out` holds after Hash::finish(out): the call made on it is
\* hydro_hash_update(&mut self.st, out, out.len()), which reads out and
\* writes the state.
OutAfterFinish(st, out) == out

\* Hash::finish(out), out of a length within the asserted range: the bytes
\* of out are absorbed into the state, and the Hash value is consumed.
HashFinish(outbuf) ==
    /\ hasher.pc = "live"
    /\ hasher' = [hasher EXCEPT !.pc = "done",
                                !.st = HydroHashUpdate(@, outbuf.bytes),
                                !.out0 = outbuf,
                                !.out = OutAfterFinish(hasher.st, outbuf)]
    /\ UNCHANGED <<initVars, lockVars, eng, gcVars, ckpt, walked, walkres, put>>

\* ========================================================= specifications

\* The repository right after init by process p1, nothing opened yet.
Init ==
    /\ target = FreshRepo("t1", "t2")
    /\ tmp = AbsentDir
    /\ initpc = [p \in InitProcs |-> "idle"]
    /\ initres = [p \in InitProcs |-> IF p = "p1" THEN "Ok" ELSE "none"]
    /\ inittok = [p \in InitProcs |-> IF p = "p1" THEN <<"t1", "t2">> ELSE <<"", "">>]
    /\ retry = [p \in InitProcs |-> FALSE]
    /\ RepoIdle

Steady ==
    \/ \E h \in Users, m \in {"Shared", "Exclusive"} : Open(h, m)
    \/ \E h \in Users : Drop(h)
    \/ \E h \in Users, a \in Addrs, p \in Payloads : AddChunk(h, a, p)
    \/ \E h \in Users, m \in ItemMetadatas : AddItem(h, m)
    \/ \E h \in Users : GcRefuse(h)
    \/ \E h \in Users : GcBegin(h)
    \/ \E h \in Users : GcNextRow(h)
    \/ \E h \in Users : GcWalk(h)
    \/ \E h \in Users : GcAbort(h)
    \/ \E h \in Users : GcCommit(h)
    \/ \E h \in Users : GcSweepList(h)
    \/ \E h \in Users : GcSweepOne(h)
    \/ \E h \in Users : GcReturn(h)

Next ==
    \/ Steady
    \/ \E h \in Users : Crash(h)

\* Handles that open, write chunks and items, run gc(), are dropped or die.
Spec == Init /\ [][Next]_vars

EngineNext ==
    \/ Next
    \/ \E h \in Users : StorageEngine(h)
    \/ \E h \in Users, keep \in SUBSET Addrs : EngineGc(h, keep)
    \/ \E h \in Users : EngineDrop(h)

CrashNext ==
    \/ Steady
    \/ \E h \in Users : CrashNoted(h)

\* What may be found at repo_path by a caller of open: nothing, a directory
\* lacking data/, the database or gc.lock, a database without tables, a
\* repository of another schema version, a repository, and a repository with
\* a row in Items that is no encoded ItemMetadata.
OpenLayouts ==
    { AbsentDir,
      [FreshRepo("t1", "t2") EXCEPT !.data = FALSE],
      [FreshRepo("t1", "t2") EXCEPT !.db = "absent", !.meta = NoMeta],
      [FreshRepo("t1", "t2") EXCEPT !.lock = FALSE],
      [FreshRepo("t1", "t2") EXCEPT !.db = "empty", !.meta = NoMeta],
      [FreshRepo("t1", "t2") EXCEPT !.meta["schema-version"] = "1"],
      FreshRepo("t1", "t2"),
      [FreshRepo("t1", "t2") EXCEPT !.items = <<JunkRow>>] }

OpenInit ==
    /\ target \in OpenLayouts
    /\ tmp = AbsentDir
    /\ initpc = [p \in InitProcs |-> "idle"]
    /\ initres = [p \in InitProcs |-> "none"]
    /\ inittok = [p \in InitProcs |-> <<"", "">>]
    /\ retry = [p \in InitProcs |-> FALSE]
    /\ RepoIdle

OpenNext ==
    \/ \E h \in Users, m \in {"Shared", "Exclusive"} : OpenBegin(h, m)
    \/ \E h \in Users : OpenLock(h)
    \/ \E h \in Users : OpenFinish(h)
    \/ \E h \in Users : Drop(h)
    \/ \E h \in Users, a \in Addrs, p \in Payloads : AddChunk(h, a, p)
    \/ \E h \in Users, m \in ItemMetadatas : AddItem(h, m)
    \/ \E h \in Users : GcRefuse(h)
    \/ \E h \in Users : GcBegin(h)
    \/ \E h \in Users : GcNextRow(h)
    \/ \E h \in Users : GcDecodeFail(h)
    \/ \E h \in Users : GcWalk(h)
    \/ \E h \in Users : GcAbort(h)
    \/ \E h \in Users : GcCommit(h)
    \/ \E h \in Users : GcSweepList(h)
    \/ \E h \in Users : GcSweepOne(h)
    \/ \E h \in Users : GcReturn(h)

\* Callers of open, step by step, on whatever is at repo_path; the handles
\* they get write chunks and items and run gc().
SpecOpen == OpenInit /\ [][OpenNext]_vars

DedupNext ==
    \/ \E h \in Users, m \in {"Shared", "Exclusive"} : Open(h, m)
    \/ \E h \in Users : Drop(h)
    \/ \E h \in Users, a \in Addrs, p \in Payloads : AddChunkNoted(h, a, p)

\* Handles whose engines add chunks, with the calls on each address remembered.
SpecDedup == Init /\ [][DedupNext]_vars

WalkNext ==
    \/ \E h \in Users, m \in {"Shared", "Exclusive"} : Open(h, m)
    \/ \E h \in Users : Drop(h)
    \/ \E h \in Users, m \in ItemMetadatas : AddItem(h, m)
    \/ \E h \in Users : WalkAllItems(h)

\* Handles that add items and walk the catalog.
SpecWalk == Init /\ [][WalkNext]_vars

LockNext ==
    \/ \E h \in Handles, m \in {"Shared", "Exclusive"} : OpenBegin(h, m)
    \/ \E h \in Handles : OpenLock(h)
    \/ \E h \in Handles : OpenFinish(h)
    \/ \E h \in Handles : Drop(h)

\* What the callers and the operating system guarantee: an open call that
\* holds the lock runs on to its return; every handle is dropped in the end;
\* and a call blocked in flock is woken at every release of the lock and gets
\* the lock if it can be granted again and again.
LockFairness ==
    \A h \in Handles :
       /\ WF_vars(OpenFinish(h))
       /\ WF_vars(Drop(h))
       /\ SF_vars(OpenLock(h))

\* Three openers of one repository, each opening Shared or Exclusive and
\* dropping its handle, again and again.
SpecLock == Init /\ [][LockNext]_vars /\ LockFairness

HashNext ==
    \/ \E ctx \in Contexts, key \in Keys : HashInit(ctx, key)
    \/ \E data \in Pieces : HashUpdate(data)
    \/ \E outbuf \in OutBufs : HashFinish(outbuf)

\* A caller of hydrogen::Hash: init, updates, finish, on any context, key,
\* data and out buffer.
SpecHash == Init /\ [][HashNext]_vars

\* The same, with the runs of gc() that die during their sweep remembered.
SpecCrash == Init /\ [][CrashNext]_vars

\* Spec with callers that keep the engine storage_engine() returns and call
\* its gc themselves.
SpecEngine == Init /\ [][EngineNext]_vars


\* ================================================================= claims

\* Every address of the item's tree is stored.
ItemWhole(st, m) == TreeAddrs(st, m.address, m.tree_height) \subseteq Stored(st)

\* The chunk store a sweep of st with the reachable set r ends in.
Swept(st, r) == [a \in Addrs |-> IF a \in r THEN st[a] ELSE NoChunk]

\* Chunks that were stored when h's gc() call began and are gone.
DeletedSince(h) == Stored(snap[h]) \ Stored(Store)

\* C1. No live data is ever deleted: no step of any interleaving of handles
\* that write chunks and items and of gc() runs, interrupted or not, removes
\* a chunk of the tree of an item of the catalog whose tree was stored whole.
C1_NoLiveDataDeleted ==
    [][\A i \in 1..Len(Items) :
          ItemWhole(Store, Items[i]) =>
             TreeAddrs(Store, Items[i].address, Items[i].tree_height)
                \subseteq Stored(target'.chunks)]_vars

\* C2. Reachability correctness: when gc() returns Ok, every address
\* referenced by the tree of some item that was stored before the run is still
\* stored, and no address outside those trees is stored.
C2_GcKeepsExactlyReachable ==
    [][\A h \in Handles :
          (gcpc[h] = "sweep" /\ gcpc'[h] = "idle" /\ gcres'[h] = "Ok") =>
             LET R == CatalogAddrs(snap[h], Items) IN
             /\ R \cap Stored(snap[h]) \subseteq Stored(target'.chunks)
             /\ Stored(target'.chunks) \subseteq R]_vars

\* C3. Exclusive-only GC: a handle opened Shared never has a gc() run in
\* progress or a catalog transaction open; its gc() call can only return the
\* policy error, and the step that returns it changes nothing in the
\* repository (chunks, items, metadata with the GC-generation token).
C3_SharedGcRefused ==
    [][\A h \in Handles :
          (hstate[h] = "open" /\ mode[h] = "Shared") =>
             /\ gcpc'[h] = "idle"
             /\ txstate'[h] = "none"
             /\ gcres'[h] \in {gcres[h], "PolicyError", "none"}
             /\ (gcres'[h] = "PolicyError" /\ gcres[h] # "PolicyError") =>
                   (target' = target /\ txstate' = txstate /\ gcpc' = gcpc)]_vars

\* C3 witness: a Shared handle whose gc() was refused while garbage is stored.
C3_Witness ==
    \E h \in Handles :
       /\ hstate[h] = "open"
       /\ mode[h] = "Shared"
       /\ gcres[h] = "PolicyError"
       /\ Stored(Store) \ CatalogAddrs(Store, Items) # {}

\* C4. Commit before sweep: a gc() run is in the engine's sweep only with its
\* transaction committed, and while its transaction is open no chunk that was
\* stored when the run began has been deleted.
C4_CommitBeforeSweep ==
    \A h \in Handles :
       /\ gcpc[h] \in {"engine", "sweep"} => txstate[h] = "committed"
       /\ txstate[h] = "open" => DeletedSince(h) = {}

\* C4 witness: a run in its sweep, committed, that has deleted a chunk.
C4_Witness ==
    \E h \in Handles :
       /\ gcpc[h] = "sweep"
       /\ txstate[h] = "committed"
       /\ DeletedSince(h) # {}

\* C5. Token rotation: once a gc() run has committed, the token stored under
\* 'gc-generation' (what gc_generation() reads, what init wrote) is the token
\* that run generated.
C5_TokenRotated ==
    \A h \in Handles :
       txstate[h] = "committed" => Meta["gc-generation"] = gctok[h]

\* C6. Crash-safety checkpoint: after a gc() run died between its commit and
\* the end of its sweep, and while catalog and store are not written: no
\* chunk of an item's tree that was stored before the interrupted run is
\* missing; a later run that finished marking has the reachable set the
\* interrupted run had; no later run fails; and once a later run has returned
\* the store is what an uninterrupted sweep leaves.
C6_RerunConverges ==
    ckpt.set =>
       /\ CatalogAddrs(ckpt.store0, Items) \cap Stored(ckpt.store0)
             \subseteq Stored(Store)
       /\ \A h \in Handles :
             /\ gcpc[h] \in {"commit", "engine", "sweep"} => reachable[h] = ckpt.reach
             /\ gcres[h] # "Err"
       /\ ckpt.rerun => Store = Swept(ckpt.store0, ckpt.reach)

\* C6 without its clause on reachable chunks: what does hold of the re-run.
C6_RerunSameSweep ==
    ckpt.set =>
       /\ \A h \in Handles :
             /\ gcpc[h] \in {"commit", "engine", "sweep"} => reachable[h] = ckpt.reach
             /\ gcres[h] # "Err"
       /\ ckpt.rerun => Store = Swept(ckpt.store0, ckpt.reach)


\* A directory holding all that init builds: data/, gc.lock, and a database
\* with the four metadata rows and the Items table.
CompleteRepo(d) ==
    /\ d.exists
    /\ d.data
    /\ d.lock
    /\ d.db = "committed"
    /\ DOMAIN d.meta = {"schema-version", "id", "gc-generation", "storage-engine"}
    /\ d.meta["schema-version"] = "0"
    /\ d.meta["id"] \in Tokens
    /\ d.meta["gc-generation"] \in Tokens
    /\ d.meta["storage-engine"] = "Local"

\* C7. init is all-or-nothing: whatever the processes in init have done or
\* failed to do, the target path is absent or holds a complete repository.
C7_InitAllOrNothing == ~target.exists \/ CompleteRepo(target)

\* C7 witness: one init has returned Ok and its repository is in place, while
\* another, interrupted, has left a half-built staging directory.
C7_Witness ==
    \E p, q \in InitProcs :
       /\ initres[p] = "Ok"
       /\ initres[q] = "IoError"
       /\ CompleteRepo(target)
       /\ tmp.exists
       /\ tmp.db # "committed"

\* C8. Init atomicity under interruption: an init called on what an
\* interrupted init left behind (target absent, staging directory there, no
\* init running) finds the target absent and does not fail with AlreadyExists.
C8_RetrySucceeds ==
    \A p \in InitProcs :
       retry[p] => (~target.exists /\ initres[p] # "AlreadyExists")

\* C9. Lock mutual exclusion: a handle opened Exclusive is the only open
\* handle.
C9_LockExclusion ==
    \A h, g \in Handles :
       (h # g /\ hstate[h] = "open" /\ mode[h] = "Exclusive") => hstate[g] # "open"

\* C9 witness: a handle opened Exclusive exists.
C9_Witness == \E h \in Handles : hstate[h] = "open" /\ mode[h] = "Exclusive"

\* Two handles opened Shared exist together.
C9_SharedTogether == \A h \in Users : hstate[h] = "open" /\ mode[h] = "Shared"

\* C10. Sweep only under the exclusive lock: every step that deletes a chunk
\* is taken while a handle opened Exclusive exists.
C10_SweepOnlyExclusive ==
    [][Stored(target'.chunks) # Stored(Store) /\ Stored(target'.chunks) \subseteq Stored(Store)
          => \E h \in Handles : hstate[h] = "open" /\ mode[h] = "Exclusive"]_vars

\* The opener is inside Repo::open past the acquisition of the lock.
OpenHoldsLock(h) == openpc[h] = "db"

\* C11. Scoped lock lifetime: an opener's lock on gc.lock is held exactly
\* while its handle exists or its open call is between the acquisition and
\* its return. With no handle and no open call in progress (the handle was
\* dropped, with or without a failed gc() on it, or open returned an error
\* before or after it took the lock) the opener holds no lock; a handle holds
\* the lock of its open mode.
C11_ScopedLock ==
    \A h \in Handles :
       /\ hstate[h] = "open" => flock[h] = mode[h]
       /\ (hstate[h] = "closed" /\ ~OpenHoldsLock(h)) => flock[h] = "none"
       /\ (openpc[h] = "idle" /\ openres[h] \notin {"none", "Ok"}) =>
             (hstate[h] = "closed" /\ flock[h] = "none")

\* C11 witness: an open call that failed after it had taken the lock
\* (the catalog could not be queried, or the schema version is unsupported)
\* has returned, while the other opener is inside open holding the lock.
C11_Witness ==
    \E h, g \in Handles :
       /\ openpc[h] = "idle"
       /\ openres[h] \in {"SqliteError", "UnsupportedSchemaVersion"}
       /\ flock[h] = "none"
       /\ OpenHoldsLock(g)
       /\ flock[g] = "Shared"

\* A handle on which gc() failed exists, holding its lock.
C11_FailedGc ==
    \E h \in Handles : hstate[h] = "open" /\ gcres[h] = "Err" /\ flock[h] = "Exclusive"

\* C12. Schema gate: no handle exists on a repository whose stored schema
\* version is not 0, and an open call that reaches the version check there
\* returns UnsupportedSchemaVersion with no handle, no lock held, and the
\* repository as it was.
C12_SchemaGate ==
    [][\A h \in Handles :
          (SchemaQueryOk /\ Meta["schema-version"] # "0") =>
             /\ hstate'[h] = "closed"
             /\ (openpc[h] = "db" /\ openpc'[h] = "idle") =>
                   /\ openres'[h] = "UnsupportedSchemaVersion"
                   /\ flock'[h] = "none"
                   /\ target' = target]_vars

\* C12 witness: open has returned UnsupportedSchemaVersion.
C12_Witness ==
    \E h \in Handles :
       /\ openres[h] = "UnsupportedSchemaVersion"
       /\ openpc[h] = "idle"
       /\ Meta["schema-version"] = "1"

\* C15. open classifies a broken layout: an open call that has returned on
\* an absent path returned RepoDoesNotExist, on a directory lacking data/,
\* the database or gc.lock it returned NotInitializedProperly, and in both
\* cases there is no handle and no lock held.
C15_OpenClassifies ==
    \A h \in Handles :
       (openpc[h] = "idle" /\ openres[h] # "none") =>
          /\ ~target.exists =>
                (openres[h] = "RepoDoesNotExist" /\ hstate[h] = "closed"
                   /\ flock[h] = "none")
          /\ (target.exists /\ (~target.data \/ target.db = "absent" \/ ~target.lock)) =>
                (openres[h] = "NotInitializedProperly" /\ hstate[h] = "closed"
                   /\ flock[h] = "none")

\* C15 without the lock file: what open does classify.
C15_OpenClassifiesSane ==
    \A h \in Handles :
       (openpc[h] = "idle" /\ openres[h] # "none") =>
          /\ ~target.exists =>
                (openres[h] = "RepoDoesNotExist" /\ hstate[h] = "closed"
                   /\ flock[h] = "none")
          /\ (target.exists /\ (~target.data \/ target.db = "absent")) =>
                (openres[h] = "NotInitializedProperly" /\ hstate[h] = "closed"
                   /\ flock[h] = "none")


\* C13. Dedup idempotence (first write wins): after any add_chunk calls on an
\* address, get_chunk returns the payload of the first call, which is what is
\* stored after that one call alone; and a further add_chunk on the address
\* by any writer is possible.
C13_FirstWriteWins ==
    \A a \in Addrs :
       put[a] # <<>> =>
          /\ GetChunk(a) = put[a][1]
          /\ \A h \in Users, p \in Payloads :
                (Writer(h) /\ Len(put[a]) < MaxPuts) => ENABLED AddChunkNoted(h, a, p)

\* C13 witness: two add_chunk calls with different payloads were made on an
\* address, and the first payload is stored.
C13_Witness ==
    \E a \in Addrs :
       /\ Len(put[a]) = 2
       /\ put[a][1] # put[a][2]
       /\ GetChunk(a) = put[a][1]

\* The concatenation of the batches.
RECURSIVE Flat(_)
Flat(calls) == IF calls = <<>> THEN <<>> ELSE Head(calls) \o Flat(Tail(calls))

\* C14. walk_all_items delivers the whole catalog: a call of walk_all_items
\* returns Ok, and the batches its callback received are never empty, hold at
\* most WalkBatch + 1 items, and together are the items of the catalog, each
\* once with its id and the metadata that was added.
C14_WalkDeliversAll ==
    [][\A h \in Handles :
          (walkres'[h] # walkres[h] /\ walkres'[h] # "none") =>
             /\ walkres'[h] = "Ok"
             /\ \A k \in 1..Len(walked'[h]) :
                   Len(walked'[h][k]) \in 1..(WalkBatch + 1)
             /\ Flat(walked'[h]) =
                   [i \in 1..Len(Items) |-> [id |-> i, metadata |-> Items[i]]]]_vars

\* A walk of the empty catalog returns Ok without a call of the callback.
C14_EmptyCatalog ==
    [][\A h \in Handles :
          (walkres'[h] # walkres[h] /\ walkres'[h] # "none" /\ Len(Items) = 0) =>
             (walkres'[h] = "Ok" /\ walked'[h] = <<>>)]_vars


\* C16. init refuses to overwrite: a call of init whose check finds the
\* target path, or the staging path, in existence returns AlreadyExists, and
\* the step that returns AlreadyExists leaves both directories as they were.
C16_InitRefuses ==
    [][\A p \in InitProcs :
          /\ (initpc[p] = "chktarget" /\ initpc'[p] # "chktarget" /\ target.exists) =>
                (initres'[p] = "AlreadyExists" /\ initpc'[p] = "idle")
          /\ (initpc[p] = "chktmp" /\ initpc'[p] # "chktmp" /\ tmp.exists) =>
                (initres'[p] = "AlreadyExists" /\ initpc'[p] = "idle")
          /\ (initpc[p] \in {"chktarget", "chktmp"} /\ initpc'[p] = "idle") =>
                (target' = target /\ tmp' = tmp)]_vars

\* C16 witness: init has returned AlreadyExists for the staging path alone.
C16_Witness ==
    \E p \in InitProcs :
       /\ initres[p] = "AlreadyExists"
       /\ initpc[p] = "idle"
       /\ ~target.exists
       /\ tmp.exists

\* C20. Concurrent init at one path: a call returns Ok only by putting its
\* own staging directory at the absent target path; a repository at the
\* target path is complete and never changes; at most one call has returned
\* Ok; and at most one call at a time works in the staging directory.
C20_ConcurrentInit ==
    [][/\ \A p \in InitProcs :
             (initres'[p] = "Ok" /\ initres[p] # "Ok") =>
                /\ ~target.exists
                /\ target' = tmp
                /\ target'.meta = InitialMeta(inittok[p][1], inittok[p][2])
       /\ target.exists => target' = target
       /\ target'.exists => CompleteRepo(target')
       /\ Cardinality({p \in InitProcs : initres'[p] = "Ok"}) <= 1
       /\ Cardinality({p \in InitProcs : initpc'[p] \in InitBuilding}) <= 1]_vars

\* C20 witness: two calls passed both checks; one returned Ok, the other built
\* a whole staging directory of its own and failed at its rename.
C20_Witness ==
    \E p, q \in InitProcs :
       /\ initres[p] = "Ok"
       /\ initres[q] = "IoError"
       /\ CompleteRepo(target)
       /\ CompleteRepo(tmp)


\* The mark phase of h's gc() is at a row it cannot decode or at a node it
\* has to expand and cannot read.
MarkFails(h) ==
    \/ /\ gcpc[h] = "rows"
       /\ row[h] < Len(Items)
       /\ ~GcRowOk(target.items[row[h] + 1])
    \/ /\ gcpc[h] = "walk"
       /\ tr[h] # <<>>
       /\ Head(tr[h])[2] \notin reachable[h]
       /\ Head(tr[h])[1] # 0
       /\ ~PushAddrOk(Store, Head(tr[h])[2])

\* h's gc() call takes a step.
GcMoves(h) ==
    <<gcpc[h], row[h], tr[h], reachable[h]>>' # <<gcpc[h], row[h], tr[h], reachable[h]>>

\* C17. A failing mark phase aborts the whole GC: where the mark phase meets
\* a row it cannot decode or a node it cannot read, the next step of gc() is
\* its return of the error; at a return of an error the transaction is still
\* open and is not committed, no chunk stored at the start of the call has
\* been deleted, and the step changes nothing in the repository; and while the
\* transaction is open the metadata (with the GC-generation token) and the
\* items are not changed.
C17_FailedMarkAborts ==
    [][\A h \in Handles :
          /\ (MarkFails(h) /\ GcMoves(h)) => (gcres'[h] = "Err" /\ gcpc'[h] = "idle")
          /\ (gcres'[h] = "Err" /\ gcpc[h] # "idle" /\ gcpc'[h] = "idle") =>
                /\ txstate[h] = "open"
                /\ txstate'[h] = "none"
                /\ DeletedSince(h) = {}
                /\ target' = target
          /\ (txstate[h] = "open" /\ txstate'[h] # "committed") =>
                (target'.meta = target.meta /\ target'.items = target.items)]_vars

\* C17 witness: gc() has returned an error on a handle that is still open,
\* with chunks stored and the token init wrote still in place.
C17_Witness ==
    \E h \in Handles :
       /\ hstate[h] = "open"
       /\ gcres[h] = "Err"
       /\ gcpc[h] = "idle"
       /\ Stored(Store) = Addrs
       /\ Meta["gc-generation"] = "t2"

\* C17: the same after a row that could not be decoded.
C17_WitnessDecode ==
    \E h \in Handles :
       /\ gcres[h] = "Err"
       /\ target.items # <<>>
       /\ ~GcRowOk(target.items[1])

\* The most children a chunk of the model has.
MaxKids ==
    CHOOSE n \in 0..Cardinality(Addrs) :
       (\A k \in AddrLists : Len(k) <= n) /\ (\E k \in AddrLists : Len(k) = n)

\* A bound on the turns of the marking loop a pending (height, address) pair
\* can cause: itself, and its children one level lower.
RECURSIVE TurnsOf(_)
TurnsOf(height) == IF height = 0 THEN 1 ELSE 1 + MaxKids * TurnsOf(height - 1)

RECURSIVE TurnsOfStack(_)
TurnsOfStack(stack) ==
    IF stack = <<>> THEN 0 ELSE TurnsOf(Head(stack)[1]) + TurnsOfStack(Tail(stack))

\* A bound on the steps the mark phase of h's gc() has left.
MarkMeasure(h) ==
    (Len(Items) - row[h]) * (TurnsOf(MaxHeight) + 2)
       + (IF gcpc[h] = "walk" THEN 1 + TurnsOfStack(tr[h]) ELSE 0)

\* C18. Mark-phase visit suppression: in a gc() run no address is expanded
\* (push_addr) more than once, and only addresses of the reachable set have
\* been expanded; a turn of the marking loop inserts only an address that was
\* not in the set; an address yielded at height 0 is not expanded; an item
\* whose root is in the reachable set starts no traversal; and the mark phase
\* terminates: it can always take a step, and each step that stays in it
\* lowers a bound on the steps left.
C18_VisitSuppression ==
    /\ [](\A h \in Handles :
            /\ \A a \in Addrs : pushed[h][a] <= 1
            /\ \A a \in Addrs : pushed[h][a] > 0 => a \in reachable[h]
            /\ gcpc[h] \in {"rows", "walk"} =>
                  (MarkMeasure(h) >= 0
                     /\ ENABLED (GcNextRow(h) \/ GcWalk(h) \/ GcAbort(h))))
    /\ [][\A h \in Handles :
            /\ (gcpc[h] = "walk" /\ reachable'[h] # reachable[h] /\ gcpc'[h] = "walk") =>
                  /\ Head(tr[h])[2] \notin reachable[h]
                  /\ reachable'[h] = reachable[h] \cup {Head(tr[h])[2]}
            /\ (gcpc[h] = "walk" /\ tr[h] # <<>> /\ Head(tr[h])[1] = 0
                   /\ gcpc'[h] = "walk") => pushed'[h] = pushed[h]
            /\ (gcpc[h] = "rows" /\ row[h] < Len(Items)
                   /\ Items[row[h] + 1].address \in reachable[h]) =>
                  (gcpc'[h] \in {"rows", "idle"} /\ tr'[h] = <<>>)
            /\ (gcpc[h] \in {"rows", "walk"} /\ gcpc'[h] \in {"rows", "walk"}
                   /\ GcMoves(h)) => MarkMeasure(h)' < MarkMeasure(h)]_vars

\* C18 witness: a run has expanded the root of one item and is at a further
\* item with the same root, whose traversal it will not start.
C18_Witness ==
    \E h \in Handles :
       /\ gcpc[h] = "rows"
       /\ row[h] < Len(Items)
       /\ Items[row[h] + 1].address \in reachable[h]
       /\ pushed[h][Items[row[h] + 1].address] = 1


\* The open call of h is blocked in, or about to call, flock in mode m.
Waiting(h, m) == openpc[h] = "lock" /\ mode[h] = m

\* C19. Lock acquisition makes progress: a Shared open that waits for the
\* lock can take it unless the lock is held Exclusive; and every open call
\* waiting for the lock, Shared or Exclusive, gets it and returns a handle,
\* given that every handle is dropped in the end.
C19_LockProgress ==
    /\ [](\A h \in Handles :
            (Waiting(h, "Shared") /\ Holders("Exclusive") = {}) => ENABLED OpenLock(h))
    /\ \A h \in Handles : Waiting(h, "Shared") ~> hstate[h] = "open"
    /\ \A h \in Handles : Waiting(h, "Exclusive") ~> hstate[h] = "open"

\* C19 for Shared opens alone: what does hold.
C19_SharedProgress ==
    /\ [](\A h \in Handles :
            (Waiting(h, "Shared") /\ Holders("Exclusive") = {}) => ENABLED OpenLock(h))
    /\ \A h \in Handles : Waiting(h, "Shared") ~> hstate[h] = "open"


\* C21. The incremental hasher agrees with the one-shot digest: after
\* Hash::init(context, key), update on each piece and finish(out), out holds
\* what hash() writes for the concatenation of the pieces, the same context
\* and key and a buffer of the same length, whatever out held before.
C21_IncrementalAgrees ==
    hasher.pc = "done" =>
       \A prev \in OutBufs :
          hasher.out = hash(hasher.fed, hasher.st.ctx, hasher.st.key, prev)

\* What finish does: out holds what it held before the call.
C21_FinishLeavesOut == hasher.pc = "done" => hasher.out = hasher.out0

\* Up to finish the state has absorbed exactly the data of the update calls.
C21_StateAbsorbsFed ==
    hasher.pc = "live" =>
       HydroHashFinal(hasher.st) = hash(hasher.fed, hasher.st.ctx, hasher.st.key, hasher.out0)


====
